---- MODULE Spec2Model ----
(***************************************************************************)
(* Conceptual Domino (src/domino.py): a Streamlit script that is re-run    *)
(* from the top on every interaction.  The state that survives a run is    *)
(* st.session_state; one action of this model is one run of the script     *)
(* with the widget values and the clicked button of that run.              *)
(*                                                                         *)
(* A Python str is a sequence of one-character strings.  None is the       *)
(* value <<"None">>, which is no str (its element is not one character).   *)
(***************************************************************************)
EXTENDS Integers, Sequences, FiniteSets, TLC

VARIABLES
    USE_AI,         \* the module's flag, fixed when the process starts
    backend,        \* how the completion service behaves in this session
    session_state,  \* st.session_state: a function from the keys set so far
    openai_calls,   \* the expressions sent to the completion service so far
    run             \* what the last run of the script did and displayed

vars == <<USE_AI, backend, session_state, openai_calls, run>>

None == <<"None">>

----------------------------------------------------------------------------
(* str methods used by the script *)

Whitespace == {" "}

Letters  == <<"a", "b", "c", "d", "e", "f">>
Capitals == <<"A", "B", "C", "D", "E", "F">>

lower_char(c) ==
    IF \E i \in 1..Len(Capitals) : Capitals[i] = c
    THEN Letters[CHOOSE i \in 1..Len(Capitals) : Capitals[i] = c]
    ELSE c

lower(s) == [i \in 1..Len(s) |-> lower_char(s[i])]

RECURSIVE lstrip(_)
lstrip(s) ==
    IF s # <<>> /\ Head(s) \in Whitespace THEN lstrip(Tail(s)) ELSE s

RECURSIVE rstrip(_)
rstrip(s) ==
    IF s # <<>> /\ s[Len(s)] \in Whitespace
    THEN rstrip(SubSeq(s, 1, Len(s) - 1))
    ELSE s

strip(s) == rstrip(lstrip(s))

\* s[:n]
prefix(s, n) == SubSeq(s, 1, IF Len(s) < n THEN Len(s) ELSE n)

\* seq[lo:hi] of Python, 0-based, hi exclusive, both clamped to the length
slice(seq, lo, hi) ==
    LET l == IF lo > Len(seq) THEN Len(seq) ELSE lo
        h == IF hi > Len(seq) THEN Len(seq) ELSE hi
    IN  SubSeq(seq, l + 1, h)

----------------------------------------------------------------------------
(* Concept inference.  `io` is what a call can read and change besides its *)
(* argument: io.ss is st.session_state, io.calls the requests sent to the  *)
(* completion service so far, io.raised whether an exception is            *)
(* propagating.                                                            *)

FallbackLen == 50

\* The completion service is outside the program: `backend` names how it
\* behaves in this session, n is the number of requests it has had before.
\* The answer is the message content, or None when the request raises.
\*   drift: the expression, padded, and another answer every second request
\*   blank: nothing but a space for the first request
\*   down:  the second request fails
Backends == {"drift", "blank", "down"}

openai_reply(expr, n) ==
    CASE backend = "drift" -> IF n % 2 = 0 THEN <<" ">> \o expr \o <<" ">>
                                           ELSE expr \o <<"!">>
      [] backend = "blank" -> IF n = 0 THEN <<" ">> ELSE expr
      [] backend = "down"  -> IF n = 1 THEN None ELSE expr

\* faulty variant: the cache is written and never read
in_cache_never(expr, cache) == FALSE

\* if expr in st.session_state.concept_cache
in_cache(expr, cache) == expr \in DOMAIN cache

infer_concept(expr, io) ==
    IF ~USE_AI THEN
        [concept |-> prefix(strip(lower(expr)), FallbackLen), io |-> io]
    ELSE
        LET ss == IF "concept_cache" \in DOMAIN io.ss
                  THEN io.ss
                  ELSE ("concept_cache" :> <<>>) @@ io.ss
            cache == ss.concept_cache
        IN  IF in_cache(expr, cache) THEN
                [concept |-> cache[expr], io |-> [io EXCEPT !.ss = ss]]
            ELSE
                LET content == openai_reply(expr, Len(io.calls))
                    calls   == Append(io.calls, expr)
                IN  IF content = None THEN
                        [concept |-> None,
                         io |-> [ss |-> ss, calls |-> calls, raised |-> TRUE]]
                    ELSE
                        LET concept == lower(strip(content))
                        IN  [concept |-> concept,
                             io |-> [ss |-> [ss EXCEPT !.concept_cache =
                                                (expr :> concept) @@ @],
                                     calls  |-> calls,
                                     raised |-> FALSE]]

----------------------------------------------------------------------------
(* Loading the tiles.  A pdf is a sequence of pages, a page the sequence   *)
(* of the lines of its text.  A loader result is [tiles, io].              *)

\* lines = [l.strip() for l in text.split("\n") if l.strip()]
RECURSIVE page_lines(_)
page_lines(text) ==
    IF text = <<>> THEN <<>>
    ELSE IF strip(Head(text)) = <<>> THEN page_lines(Tail(text))
         ELSE <<strip(Head(text))>> \o page_lines(Tail(text))

\* for i in range(0, len(lines) - 1, 2): tiles.append({...})
RECURSIVE page_tiles(_, _)
page_tiles(lines, acc) ==
    IF Len(lines) < 2 \/ acc.io.raised THEN acc
    ELSE
        LET ra == infer_concept(lines[1], acc.io)
            rb == IF ra.io.raised THEN ra
                  ELSE infer_concept(lines[2], ra.io)
        IN  IF rb.io.raised THEN [acc EXCEPT !.io = rb.io]
            ELSE page_tiles(SubSeq(lines, 3, Len(lines)),
                     [tiles |-> Append(acc.tiles,
                                   [id          |-> Len(acc.tiles),
                                    a           |-> lines[1],
                                    b           |-> lines[2],
                                    a_concept   |-> ra.concept,
                                    b_concept   |-> rb.concept,
                                    orientation |-> "horizontal"]),
                      io    |-> rb.io])

\* for page in pdf.pages: ...
RECURSIVE load_tiles_from_pdf(_, _)
load_tiles_from_pdf(pages, acc) ==
    IF pages = <<>> \/ acc.io.raised THEN acc
    ELSE load_tiles_from_pdf(Tail(pages),
             page_tiles(page_lines(Head(pages)), acc))

----------------------------------------------------------------------------
(* The board *)

init_board == [tiles |-> <<>>, left_concept |-> None, right_concept |-> None]

\* A call returns <<success, feedback>> and leaves the board changed or not:
\* [success, feedback, board].

\* Faulty variants of the first placement, which C2 and C3 must tell from
\* the code: seeding the ends by the tile's orientation, and setting the
\* left end only.
place_first_by_orientation(board, tile) ==
    [success  |-> TRUE,
     feedback |-> <<"First tile placed">>,
     board    |-> [tiles         |-> Append(board.tiles, tile),
                   left_concept  |-> IF tile.orientation = "horizontal"
                                     THEN tile.a_concept ELSE tile.b_concept,
                   right_concept |-> IF tile.orientation = "horizontal"
                                     THEN tile.b_concept ELSE tile.a_concept]]

place_first_left_only(board, tile) ==
    [success  |-> TRUE,
     feedback |-> <<"First tile placed">>,
     board    |-> [board EXCEPT !.tiles = Append(@, tile),
                                !.left_concept = tile.a_concept]]

\* if not board["tiles"]: ...
place_first(board, tile) ==
    [success  |-> TRUE,
     feedback |-> <<"First tile placed">>,
     board    |-> [tiles         |-> Append(board.tiles, tile),
                   left_concept  |-> tile.a_concept,
                   right_concept |-> tile.b_concept]]

\* return False, "Concept mismatch. Expected ..."
mismatch(board) ==
    [success  |-> FALSE,
     feedback |-> <<"Concept mismatch", board.left_concept,
                    board.right_concept>>,
     board    |-> board]

\* Faulty variant, which C1 must tell from the code: a match by face B
\* leaves face B at the left end.
place_left_keeping_face(board, tile) ==
    IF tile.a_concept = board.left_concept THEN
        [success  |-> TRUE,
         feedback |-> <<"Matched left concept", tile.a_concept>>,
         board    |-> [board EXCEPT !.tiles = <<tile>> \o @,
                                    !.left_concept = tile.b_concept]]
    ELSE IF tile.b_concept = board.left_concept THEN
        [success  |-> TRUE,
         feedback |-> <<"Matched left concept", tile.b_concept>>,
         board    |-> [board EXCEPT !.tiles = <<tile>> \o @,
                                    !.left_concept = tile.b_concept]]
    ELSE mismatch(board)

\* if side == "left": ...
place_left(board, tile) ==
    IF tile.a_concept = board.left_concept THEN
        [success  |-> TRUE,
         feedback |-> <<"Matched left concept", tile.a_concept>>,
         board    |-> [board EXCEPT !.tiles = <<tile>> \o @,
                                    !.left_concept = tile.b_concept]]
    ELSE IF tile.b_concept = board.left_concept THEN
        [success  |-> TRUE,
         feedback |-> <<"Matched left concept", tile.b_concept>>,
         board    |-> [board EXCEPT !.tiles = <<tile>> \o @,
                                    !.left_concept = tile.a_concept]]
    ELSE mismatch(board)

\* faulty variant: a tile placed right goes to the front of the list
place_right_at_front(board, tile) ==
    IF tile.a_concept = board.right_concept THEN
        [success  |-> TRUE,
         feedback |-> <<"Matched right concept", tile.a_concept>>,
         board    |-> [board EXCEPT !.tiles = <<tile>> \o @,
                                    !.right_concept = tile.b_concept]]
    ELSE IF tile.b_concept = board.right_concept THEN
        [success  |-> TRUE,
         feedback |-> <<"Matched right concept", tile.b_concept>>,
         board    |-> [board EXCEPT !.tiles = <<tile>> \o @,
                                    !.right_concept = tile.a_concept]]
    ELSE mismatch(board)

\* if side == "right": ...
place_right(board, tile) ==
    IF tile.a_concept = board.right_concept THEN
        [success  |-> TRUE,
         feedback |-> <<"Matched right concept", tile.a_concept>>,
         board    |-> [board EXCEPT !.tiles = Append(@, tile),
                                    !.right_concept = tile.b_concept]]
    ELSE IF tile.b_concept = board.right_concept THEN
        [success  |-> TRUE,
         feedback |-> <<"Matched right concept", tile.b_concept>>,
         board    |-> [board EXCEPT !.tiles = Append(@, tile),
                                    !.right_concept = tile.a_concept]]
    ELSE mismatch(board)

place_tile_on_board(board, tile, side) ==
    IF board.tiles = <<>> THEN place_first(board, tile)
    ELSE IF side = "left" /\ place_left(board, tile).success
         THEN place_left(board, tile)
    ELSE IF side = "right" /\ place_right(board, tile).success
         THEN place_right(board, tile)
    ELSE mismatch(board)

----------------------------------------------------------------------------
(* The documents the script reads, and the shuffles it may draw *)

\* the expression naming concept number k, and the same with a capital
Name(k) == <<Letters[(k \div 6) + 1], Letters[(k % 6) + 1]>>
Shout(e) == <<Capitals[CHOOSE i \in 1..Len(Letters) : Letters[i] = e[1]]>>
            \o Tail(e)

ChainLen == 28

\* the chain has a gap: no tile joins the concepts on either side of it
ChainBreak == 24

\* the two lines of tile i of a chain: tile i joins two neighbouring
\* concepts, concepts i and i + 1 before the gap and i + 1 and i + 2 after
\* it, every third tile the other way round; lines come indented and in
\* either case
ChainTile(i) ==
    LET k  == IF i < ChainBreak THEN i ELSE i + 1
        lo == IF i % 2 = 0 THEN Shout(Name(k)) ELSE Name(k)
        hi == <<" ">> \o Name(k + 1)
    IN  IF i % 3 = 2 THEN <<hi, lo>> ELSE <<lo, hi>>

RECURSIVE ChainLines(_, _)
ChainLines(from, to) ==
    IF from > to THEN <<>> ELSE ChainTile(from) \o ChainLines(from + 1, to)

\* two pages of tiles with a blank line, an empty page, and a page whose
\* single line pairs with nothing
ChainPdf ==
    << ChainLines(0, 2) \o << <<" ">> >>,
       <<>>,
       ChainLines(3, ChainLen - 1),
       << Name(0) >> >>

\* few concepts, doubles, and faces that differ only in case or spacing
SmallPdf ==
    << << <<"a">>, <<"b">>,   <<"B">>, <<"b">>,   <<"b">>, <<"c">>,
          <<"A">>, <<"c", " ">>,   <<"d">>, <<"e">>,   <<"c">>, <<"C">>,
          <<"a">>, <<" ", "A">>,   <<"e">>, <<"f">> >> >>

\* tiles.pdf: the full chain is played with literal concepts, the small
\* document with every behaviour of the completion service
PdfFiles == IF USE_AI THEN {SmallPdf} ELSE {ChainPdf, SmallPdf}

\* rules.docx is only displayed
load_rules_from_docx == << <<"r", "u", "l", "e">> >>

\* random.shuffle(tiles): some of the permutations of n tiles (as dealt,
\* reversed, every third)
Shuffles(n) ==
    { perm \in { [i \in 1..n |-> i],
                 [i \in 1..n |-> n + 1 - i],
                 [i \in 1..n |-> ((3 * (i - 1)) % n) + 1] } :
        {perm[i] : i \in 1..n} = 1..n }

----------------------------------------------------------------------------
(* Setup *)

PlayerName(i) == <<"Player 1", "Player 2", "Player 3", "Player 4">>[i + 1]

\* faulty variant: the two hand sizes exchanged
tiles_per_exchanged(num_players) == IF num_players = 2 THEN 7 ELSE 14

\* tiles_per = 14 if num_players == 2 else 7
tiles_per(num_players) == IF num_players = 2 THEN 14 ELSE 7

\* players[f"Player {i+1}"] = {"hand": tiles[i*tiles_per:(i+1)*tiles_per],
\*                             "score": 0}
deal(tiles, num_players) ==
    [name \in {PlayerName(i) : i \in 0..(num_players - 1)} |->
        LET i == CHOOSE j \in 0..(num_players - 1) : PlayerName(j) = name
        IN  [hand  |-> slice(tiles, i * tiles_per(num_players),
                             (i + 1) * tiles_per(num_players)),
             score |-> 0]]

\* the session after the "Start Game" handler, given the shuffled tiles
start_game(ss, tiles, num_players) ==
    [players      |-> deal(tiles, num_players),
     player_order |-> [i \in 1..num_players |-> PlayerName(i - 1)],
     turn_index   |-> 0,
     board        |-> init_board,
     rules        |-> load_rules_from_docx,
     initialized  |-> TRUE] @@ ss

\* run.deck: the ids of the tiles in the order random.shuffle left them,
\* in the run that dealt
NoRun == [event |-> "setup", player |-> None, idx |-> -1, side |-> "-",
          justification |-> <<>>, success |-> FALSE, feedback |-> <<>>,
          deck |-> <<>>]

Init ==
    /\ USE_AI \in BOOLEAN
    /\ backend \in (IF USE_AI THEN Backends ELSE {"none"})
    /\ session_state = <<>>
    /\ openai_calls = <<>>
    /\ run = NoRun

StartGame ==
    /\ "initialized" \notin DOMAIN session_state
    /\ \E num_players \in {2, 4}, pdf \in PdfFiles :
        LET loaded == load_tiles_from_pdf(pdf,
                          [tiles |-> <<>>,
                           io    |-> [ss     |-> session_state,
                                      calls  |-> openai_calls,
                                      raised |-> FALSE]])
        IN  /\ openai_calls' = loaded.io.calls
            /\ IF loaded.io.raised THEN
                    /\ session_state' = loaded.io.ss
                    /\ run' = [NoRun EXCEPT !.event = "exception"]
               ELSE
                    \E perm \in Shuffles(Len(loaded.tiles)) :
                        /\ session_state' =
                              start_game(loaded.io.ss,
                                  [i \in 1..Len(loaded.tiles) |->
                                      loaded.tiles[perm[i]]],
                                  num_players)
                        /\ run' = [NoRun EXCEPT
                                      !.event = "start",
                                      !.success = TRUE,
                                      !.deck = [i \in 1..Len(loaded.tiles) |->
                                                  loaded.tiles[perm[i]].id]]
    /\ UNCHANGED <<USE_AI, backend>>

----------------------------------------------------------------------------
(* A turn *)

current_player(ss) == ss.player_order[ss.turn_index + 1]

\* Faulty variant, which C8 must tell from the code:
\* `a in [left, right] or b` for `a in [...] or b in [...]`.
valid_indices_truthy(hand, board) ==
    { i \in 0..(Len(hand) - 1) :
        \/ board.tiles = <<>>
        \/ hand[i + 1].a_concept \in {board.left_concept, board.right_concept}
        \/ hand[i + 1].b_concept # <<>> }

\* faulty variant: the faces are compared with the right end only, as for
\* a chain that grows at one end
valid_indices_right_end(hand, board) ==
    { i \in 0..(Len(hand) - 1) :
        \/ board.tiles = <<>>
        \/ hand[i + 1].a_concept = board.right_concept
        \/ hand[i + 1].b_concept = board.right_concept }

\* indices are those of Python: hand[i] is hand[i + 1] here
valid_indices(hand, board) ==
    { i \in 0..(Len(hand) - 1) :
        \/ board.tiles = <<>>
        \/ hand[i + 1].a_concept \in {board.left_concept, board.right_concept}
        \/ hand[i + 1].b_concept \in {board.left_concept, board.right_concept} }

\* faulty variant: the turn stays with the same player
next_turn_same(ss) == ss.turn_index

\* (turn_index + 1) % len(player_order)
next_turn(ss) == (ss.turn_index + 1) % Len(ss.player_order)

\* Faulty variant, which C4 must tell from the code: hand.pop()
pop_last(hand, idx) == SubSeq(hand, 1, Len(hand) - 1)

\* faulty variant: the tile played stays in the hand too
pop_nothing(hand, idx) == hand

\* hand.pop(idx)
pop(hand, idx) == SubSeq(hand, 1, idx) \o SubSeq(hand, idx + 2, Len(hand))

\* faulty variant: the rotation also turns the tile over, face B first
rotate_turning_over(tile) ==
    [tile EXCEPT !.orientation =
                    IF @ = "horizontal" THEN "vertical" ELSE "horizontal",
                 !.a = tile.b, !.b = tile.a,
                 !.a_concept = tile.b_concept, !.b_concept = tile.a_concept]

\* tile["orientation"] = "vertical" if ... == "horizontal" else "horizontal"
rotate(tile) ==
    [tile EXCEPT !.orientation =
        IF @ = "horizontal" THEN "vertical" ELSE "horizontal"]

\* Faulty variant, which C10 must tell from the code: `if not justification`
justified_unstripped(justification) == justification # <<>>

\* if not justification.strip(): st.error(...); st.stop()
justified(justification) == strip(justification) # <<>>

\* Faulty variant, which C5 must tell from the code: an illegal attempt
\* that passes the turn on.
rejected_turn_consumed(ss, placed) ==
    [ss EXCEPT !.board = placed.board, !.turn_index = next_turn(ss)]

\* if not success: st.error(...); st.info(...); st.stop()
rejected(ss, placed) == [ss EXCEPT !.board = placed.board]

\* Faulty variant, which C7 must tell from the code: player["score"] = 4
award_assigned(score) == 4

\* player["score"] += 4
award(score) == score + 4

\* the "Play tile" handler: the session it leaves and what it displays
play_tile(ss, idx, placement_side, justification) ==
    LET name   == current_player(ss)
        player == ss.players[name]
        tile   == player.hand[idx + 1]
    IN  IF ~justified(justification) THEN
            [ss |-> ss, success |-> FALSE,
             feedback |-> <<"Justification is mandatory.">>]
        ELSE
            LET placed == place_tile_on_board(ss.board, tile, placement_side)
            IN  IF ~placed.success THEN
                    [ss |-> rejected(ss, placed),
                     success |-> FALSE, feedback |-> placed.feedback]
                ELSE
                    [ss |-> [ss EXCEPT
                               !.board = placed.board,
                               !.players[name].hand = pop(@, idx),
                               !.players[name].score = award(@),
                               !.turn_index = next_turn(ss)],
                     success |-> TRUE, feedback |-> placed.feedback]

\* the tiles a player ever rotates, by id: orientation is one bit per tile,
\* and changes nothing but itself
Rotated == {0}

AutoPass ==
    /\ "initialized" \in DOMAIN session_state
    /\ LET name == current_player(session_state)
       IN  /\ valid_indices(session_state.players[name].hand,
                            session_state.board) = {}
           /\ session_state' =
                 [session_state EXCEPT !.turn_index = next_turn(session_state)]
           /\ run' = [NoRun EXCEPT !.event = "autopass", !.player = name]
    /\ UNCHANGED <<USE_AI, backend, openai_calls>>

RotateTile ==
    /\ "initialized" \in DOMAIN session_state
    /\ LET name == current_player(session_state)
           hand == session_state.players[name].hand
       IN  \E idx \in valid_indices(hand, session_state.board) :
            /\ hand[idx + 1].id \in Rotated
            /\ session_state' =
                  [session_state EXCEPT
                      !.players[name].hand[idx + 1] = rotate(@)]
            /\ run' = [NoRun EXCEPT !.event = "rotate", !.player = name,
                                    !.idx = idx]
    /\ UNCHANGED <<USE_AI, backend, openai_calls>>

\* what a player may type as a justification
Justifications == {<<>>, <<" ">>, <<"o", "k">>}

PlayTile ==
    /\ "initialized" \in DOMAIN session_state
    /\ LET name == current_player(session_state)
           hand == session_state.players[name].hand
       IN  \E idx \in valid_indices(hand, session_state.board),
              placement_side \in {"left", "right"},
              justification \in Justifications :
            LET played == play_tile(session_state, idx, placement_side,
                                    justification)
            IN  /\ session_state' = played.ss
                /\ run' = [event |-> "play", player |-> name, idx |-> idx,
                           side |-> placement_side,
                           justification |-> justification,
                           success |-> played.success,
                           feedback |-> played.feedback,
                           deck |-> <<>>]
    /\ UNCHANGED <<USE_AI, backend, openai_calls>>

Next == StartGame \/ AutoPass \/ RotateTile \/ PlayTile

Spec == Init /\ [][Next]_vars

\* a run of the "Play tile" handler that placed the tile: PlayTile with a
\* justification the handler takes and a tile with a face for the selected
\* end
LegalPlay ==
    /\ "initialized" \in DOMAIN session_state
    /\ LET name  == current_player(session_state)
           hand  == session_state.players[name].hand
           board == session_state.board
       IN  \E justification \in {j \in Justifications : justified(j)},
              idx \in valid_indices(hand, board),
              placement_side \in {"left", "right"} :
            /\ \/ board.tiles = <<>>
               \/ hand[idx + 1].a_concept =
                     (IF placement_side = "left" THEN board.left_concept
                                                 ELSE board.right_concept)
               \/ hand[idx + 1].b_concept =
                     (IF placement_side = "left" THEN board.left_concept
                                                 ELSE board.right_concept)
            /\ LET played == play_tile(session_state, idx, placement_side,
                                       justification)
               IN  /\ played.success
                   /\ session_state' = played.ss
                   /\ run' = [event |-> "play", player |-> name, idx |-> idx,
                              side |-> placement_side,
                              justification |-> justification,
                              success |-> played.success,
                              feedback |-> played.feedback,
                              deck |-> <<>>]
    /\ UNCHANGED <<USE_AI, backend, openai_calls>>

\* the current player is offered a tile: the state in which LegalPlay can
\* be taken (CanPlay is ENABLED <<LegalPlay>>_vars, see CanPlayIsEnabled)
CanPlay ==
    /\ "initialized" \in DOMAIN session_state
    /\ valid_indices(
          session_state.players[current_player(session_state)].hand,
          session_state.board) # {}

CanPlayIsEnabled == CanPlay <=> ENABLED <<LegalPlay>>_vars

\* The script runs again whenever the page is used: a turn that is to be
\* passed is passed in the end, and a player who can place a tile places one
\* in the end.  The second condition is WF_vars(LegalPlay) written out,
\* with CanPlay for the enabling condition.
FairSpec ==
    /\ Spec
    /\ WF_vars(AutoPass)
    /\ ([]<>(~CanPlay) \/ []<><<LegalPlay>>_vars)

----------------------------------------------------------------------------
(* Properties.  A step of the "Play tile" handler is a step whose next     *)
(* state has run.event = "play"; run holds the widget values of that run,  *)
(* and the unprimed variables the session the handler found.               *)

Initialized == "initialized" \in DOMAIN session_state

\* a justification with nothing in it but spaces
Blank(justification) ==
    \A i \in 1..Len(justification) : justification[i] = " "

EndConcept(board, side) ==
    IF side = "left" THEN board.left_concept ELSE board.right_concept

Opposite(side) == IF side = "left" THEN "right" ELSE "left"

Hands(ss) == [name \in DOMAIN ss.players |-> ss.players[name].hand]

Scores(ss) == [name \in DOMAIN ss.players |-> ss.players[name].score]

\* the handler ran and went on to place_tile_on_board
Attempt == run'.event = "play" /\ ~Blank(run'.justification)

\* the tile selected in the run that made this step
Selected == session_state.players[run'.player].hand[run'.idx + 1]

\* C1: on a non-empty board a placement at an end succeeds exactly when one
\* of the tile's faces has the concept of that end; the end then takes the
\* concept of the other face, the tile goes to the front of the board for
\* left and to the back for right, and the other end keeps its concept.
C1_PlacementRule ==
    [][ (Attempt /\ session_state.board.tiles # <<>>) =>
          LET old    == session_state.board
              new    == session_state'.board
              side   == run'.side
              matchA == Selected.a_concept = EndConcept(old, side)
              matchB == Selected.b_concept = EndConcept(old, side)
          IN  /\ run'.success <=> (matchA \/ matchB)
              /\ run'.success =>
                    /\ EndConcept(new, side) =
                          IF matchA THEN Selected.b_concept
                                    ELSE Selected.a_concept
                    /\ new.tiles = IF side = "left"
                                   THEN <<Selected>> \o old.tiles
                                   ELSE Append(old.tiles, Selected)
                    /\ EndConcept(new, Opposite(side)) =
                          EndConcept(old, Opposite(side)) ]_vars

\* a tile was put at the left of a non-empty board by its face B: the left
\* end now shows its face A
C1_Witness ==
    /\ Initialized
    /\ run.event = "play" /\ run.success /\ run.side = "left"
    /\ Len(session_state.board.tiles) >= 2
    /\ session_state.board.tiles[1].a_concept # session_state.board.tiles[1].b_concept
    /\ session_state.board.left_concept = session_state.board.tiles[1].a_concept

\* C2: a placement on the empty board succeeds for either selected end and
\* either orientation, and leaves the board holding that tile alone, its
\* face A concept at the left end and its face B concept at the right end.
C2_FirstPlacement ==
    [][ (Attempt /\ session_state.board.tiles = <<>>) =>
          /\ run'.success
          /\ session_state'.board.tiles = <<Selected>>
          /\ session_state'.board.left_concept = Selected.a_concept
          /\ session_state'.board.right_concept = Selected.b_concept ]_vars

\* the first tile was placed upright with the right end selected, and its
\* faces have different concepts
C2_Witness ==
    /\ Initialized
    /\ run.event = "play" /\ run.success /\ run.side = "right"
    /\ Len(session_state.board.tiles) = 1
    /\ session_state.board.tiles[1].orientation = "vertical"
    /\ session_state.board.tiles[1].a_concept # session_state.board.tiles[1].b_concept

\* C3: in a session, each end concept is None exactly when the board has no
\* tile.
C3_EndsNullIffEmpty ==
    Initialized =>
        /\ (session_state.board.left_concept = None)
              <=> (session_state.board.tiles = <<>>)
        /\ (session_state.board.right_concept = None)
              <=> (session_state.board.tiles = <<>>)

\* a board of several tiles one of whose ends shows the empty concept ""
C3_Witness ==
    /\ Initialized
    /\ Len(session_state.board.tiles) >= 2
    /\ session_state.board.left_concept = <<>>

\* C4: a successful play takes exactly the selected tile out of the current
\* player's hand, puts exactly that tile on the board, leaves the other
\* hands alone and moves turn_index on by one modulo the number of players.
C4_SuccessfulPlay ==
    [][ (run'.event = "play" /\ run'.success) =>
          LET name == run'.player
              idx  == run'.idx
              hand == session_state.players[name].hand
              left == session_state'.players[name].hand
          IN  /\ Len(left) = Len(hand) - 1
              /\ \A j \in 1..Len(left) :
                    left[j] = IF j <= idx THEN hand[j] ELSE hand[j + 1]
              /\ \A other \in DOMAIN session_state.players \ {name} :
                    session_state'.players[other].hand =
                       session_state.players[other].hand
              /\ session_state'.board.tiles \in
                    { <<hand[idx + 1]>> \o session_state.board.tiles,
                      Append(session_state.board.tiles, hand[idx + 1]) }
              /\ session_state'.turn_index =
                    (session_state.turn_index + 1)
                       % Len(session_state.player_order) ]_vars

\* the last player in the order has played a tile from the middle of the
\* hand, the turn is back at the first player, who still holds tiles
C4_Witness ==
    /\ Initialized
    /\ run.event = "play" /\ run.success
    /\ run.idx > 0 /\ run.idx < Len(session_state.players[run.player].hand)
    /\ run.player = session_state.player_order[Len(session_state.player_order)]
    /\ session_state.turn_index = 0
    /\ session_state.players["Player 1"].hand # <<>>

\* C5: an attempt that does not match the selected end of a non-empty board
\* changes neither the board nor any hand nor turn_index: the same player
\* is still to move.
C5_IllegalKeepsTurn ==
    [][ (Attempt /\ ~run'.success) =>
          /\ session_state'.board = session_state.board
          /\ Hands(session_state') = Hands(session_state)
          /\ session_state'.turn_index = session_state.turn_index
          /\ current_player(session_state') = run'.player ]_vars

\* a mismatch was reported on a board with tiles, to a player who is
\* still the one to move
C5_Witness ==
    /\ Initialized
    /\ run.event = "play" /\ ~run.success
    /\ run.feedback[1] = "Concept mismatch"
    /\ session_state.board.tiles # <<>>
    /\ current_player(session_state) = run.player

\* the turn has just begun: the last run dealt, placed a tile or passed
TurnBegins == run.event \in {"start", "autopass"} \/ (run.event = "play" /\ run.success)

\* C6: the first illegal attempt of a turn takes 2 from the current
\* player's score, and a further illegal attempt changes no score.
C6_FirstIllegalCostsTwo ==
    [][ (Attempt /\ ~run'.success) =>
          IF TurnBegins
          THEN Scores(session_state') =
                  [Scores(session_state) EXCEPT ![run'.player] = @ - 2]
          ELSE (run.event = "play" /\ ~run.success /\ ~Blank(run.justification))
                  => Scores(session_state') = Scores(session_state) ]_vars

\* C7: a successful placement adds 4 to the score of the player who made
\* it and changes no other score.
C7_SuccessAddsFour ==
    [][ (run'.event = "play" /\ run'.success) =>
          Scores(session_state') =
             [Scores(session_state) EXCEPT ![run'.player] = @ + 4] ]_vars

\* a player has placed a tile for the third time
C7_Witness ==
    /\ Initialized
    /\ run.event = "play" /\ run.success
    /\ session_state.players[run.player].score = 12

\* no tile of the current player's hand has a face with the concept of
\* either end of a board that has tiles
Blocked ==
    /\ Initialized
    /\ session_state.board.tiles # <<>>
    /\ LET hand == session_state.players[current_player(session_state)].hand
       IN  \A i \in 1..Len(hand) : \A side \in {"left", "right"} :
              /\ hand[i].a_concept # EndConcept(session_state.board, side)
              /\ hand[i].b_concept # EndConcept(session_state.board, side)

\* C8: when the current player is blocked, the run of the script passes the
\* turn whatever was selected or typed: turn_index moves on by one modulo
\* the number of players, and scores, hands and board stay as they are.
C8_AutoPass ==
    [][ Blocked =>
          /\ run'.event = "autopass"
          /\ session_state'.turn_index =
                (session_state.turn_index + 1)
                   % Len(session_state.player_order)
          /\ session_state'.players = session_state.players
          /\ session_state'.board = session_state.board ]_vars

\* the last player in the order, holding tiles, was passed over and the
\* turn is back at the first player
C8_Witness ==
    /\ Initialized
    /\ run.event = "autopass"
    /\ session_state.board.tiles # <<>>
    /\ session_state.players[run.player].hand # <<>>
    /\ session_state.turn_index = 0

\* some player has placed tiles and holds none
GameOver ==
    /\ Initialized
    /\ \E name \in DOMAIN session_state.players :
          /\ session_state.players[name].hand = <<>>
          /\ session_state.players[name].score > 0

\* C9: once a player has emptied the hand by a placement, no step changes
\* the board, a hand, a score or turn_index.
C9_GameOverAbsorbing ==
    [][ GameOver =>
          /\ session_state'.board = session_state.board
          /\ session_state'.players = session_state.players
          /\ session_state'.turn_index = session_state.turn_index ]_vars

\* C10: a play with an empty justification (nothing, or nothing but
\* spaces) changes nothing of the session, even when the selected tile
\* fits the selected end.
C10_EmptyJustification ==
    [][ (run'.event = "play" /\ Blank(run'.justification)) =>
          /\ ~run'.success
          /\ session_state' = session_state ]_vars

\* a play with a justification of one space was turned down although the
\* selected tile fits the selected end
C10_Witness ==
    /\ Initialized
    /\ run.event = "play" /\ ~run.success
    /\ run.justification = <<" ">>
    /\ current_player(session_state) = run.player
    /\ session_state.board.tiles # <<>>
    /\ LET tile == session_state.players[run.player].hand[run.idx + 1]
       IN  \/ tile.a_concept = EndConcept(session_state.board, run.side)
           \/ tile.b_concept = EndConcept(session_state.board, run.side)

\* C11: a game starts only from a deck of exactly 28 tiles: a run that
\* initialised the session and dealt hands, for 2 or for 4 players, had
\* loaded 28 tiles; with any other deck no session is initialised.
C11_DeckOfTwentyEight ==
    [][ (~Initialized /\ Initialized') => Len(run'.deck) = 28 ]_vars

\* the ids of the tiles of a hand, in the hand's order
HandIds(hand) == [i \in 1..Len(hand) |-> hand[i].id]

\* C12: a start from a deck of 28 tiles deals 14 tiles to each of 2 players
\* and 7 to each of 4: the hand of the i-th player of player_order is the
\* i-th run of that many tiles of the shuffled deck, so that the hands have no
\* tile in common, hold 28 tiles together and every tile of the deck is
\* in one of them.
C12_DealSlices ==
    [][ (run'.event = "start" /\ Len(run'.deck) = 28) =>
          LET order == session_state'.player_order
              n     == Len(order)
              per   == IF n = 2 THEN 14 ELSE 7
              ids(i) == HandIds(session_state'.players[order[i]].hand)
          IN  /\ n \in {2, 4}
              /\ DOMAIN session_state'.players = {order[i] : i \in 1..n}
              /\ \A i \in 1..n :
                    /\ order[i] = PlayerName(i - 1)
                    /\ Len(ids(i)) = per
                    /\ ids(i) = SubSeq(run'.deck, (i - 1) * per + 1, i * per)
              /\ \A i, j \in 1..n :
                    i # j => {ids(i)[k] : k \in 1..per}
                               \cap {ids(j)[k] : k \in 1..per} = {}
              /\ n * per = 28
              /\ UNION {{ids(i)[k] : k \in 1..per} : i \in 1..n} = 0..27 ]_vars

\* four players were dealt from a deck of 28 tiles that the shuffle had
\* put in another order
C12_Witness ==
    /\ Initialized
    /\ run.event = "start"
    /\ Len(run.deck) = 28
    /\ run.deck[1] # 0
    /\ Len(session_state.player_order) = 4
    /\ Len(session_state.players[PlayerName(3)].hand) = 7

\* the tile with the given orientation and nothing else changed
Oriented(tile, orientation) == [tile EXCEPT !.orientation = orientation]

\* place_tile_on_board answers alike for the tile horizontal and vertical:
\* the same success at each end and the same end concepts afterwards
OrientationBlind(board, tile) ==
    \A side \in {"left", "right"} :
        LET h == place_tile_on_board(board, Oriented(tile, "horizontal"), side)
            v == place_tile_on_board(board, Oriented(tile, "vertical"), side)
        IN  /\ h.success = v.success
            /\ h.feedback = v.feedback
            /\ h.board.left_concept = v.board.left_concept
            /\ h.board.right_concept = v.board.right_concept
            /\ Len(h.board.tiles) = Len(v.board.tiles)

\* C13: "Rotate tile" changes the orientation field of the selected tile and
\* nothing else of the session: its expressions and concepts stay.  In every
\* state, each tile held is accepted at the same ends, and leaves the same
\* end concepts, horizontal as vertical, and is offered or not offered as a
\* valid move alike.
C13_RotationOnlyOrientation ==
    [][ /\ (Initialized' /\ session_state' # session_state) =>
            \A name \in DOMAIN session_state'.players :
                LET hand == session_state'.players[name].hand
                IN  \A i \in 1..Len(hand) :
                      /\ OrientationBlind(session_state'.board, hand[i])
                      /\ valid_indices(<<Oriented(hand[i], "horizontal")>>,
                                       session_state'.board)
                           = valid_indices(<<Oriented(hand[i], "vertical")>>,
                                           session_state'.board)
        /\ run'.event = "rotate" =>
            LET other == IF Selected.orientation = "horizontal"
                         THEN "vertical" ELSE "horizontal"
                after == session_state'.players[run'.player].hand[run'.idx + 1]
            IN  /\ Selected.orientation \in {"horizontal", "vertical"}
                /\ after.orientation = other
                /\ after.id = Selected.id
                /\ after.a = Selected.a /\ after.b = Selected.b
                /\ after.a_concept = Selected.a_concept
                /\ after.b_concept = Selected.b_concept
                /\ session_state' =
                     [session_state EXCEPT
                        !.players[run'.player].hand[run'.idx + 1].orientation
                            = other] ]_vars

\* a tile rotated to vertical and back to horizontal since is held against
\* a board that has tiles, and the last run rotated it
C13_Witness ==
    /\ Initialized
    /\ run.event = "rotate"
    /\ session_state.board.tiles # <<>>
    /\ LET tile == session_state.players[run.player].hand[run.idx + 1]
       IN  /\ tile.orientation = "horizontal"
           /\ tile.a_concept # tile.b_concept

\* the tiles of the session: those held and those on the board
SessionTiles(ss) ==
    {ss.board.tiles[i] : i \in 1..Len(ss.board.tiles)}
      \cup UNION {{ss.players[name].hand[i] :
                      i \in 1..Len(ss.players[name].hand)} :
                  name \in DOMAIN ss.players}

\* the faces of the session's tiles, as <<expression, concept>>
Faces(ss) ==
    UNION {{<<tile.a, tile.a_concept>>, <<tile.b, tile.b_concept>>} :
             tile \in SessionTiles(ss)}

\* every face with the same expression has the same concept and, with the
\* completion service, the concept the cache holds for the expression
SameLabel ==
    Initialized =>
        /\ \A f, g \in Faces(session_state) : f[1] = g[1] => f[2] = g[2]
        /\ USE_AI => \A f \in Faces(session_state) :
                        /\ f[1] \in DOMAIN session_state.concept_cache
                        /\ session_state.concept_cache[f[1]] = f[2]

\* the i-th request to the completion service got an answer
Answered(i) == openai_reply(openai_calls[i], i - 1) # None

\* C14 as stated: every resolution of an expression gives the same concept,
\* and no expression is sent to the completion service twice.
C14_OneRequestPerExpression ==
    /\ SameLabel
    /\ \A i, j \in 1..Len(openai_calls) :
          openai_calls[i] = openai_calls[j] => i = j

\* C14, amended: every resolution of an expression gives the same concept,
\* and no expression is sent to the completion service again once a request
\* for it was answered, although the service would answer otherwise; an
\* expression whose request raised is sent again by the next start.
C14_OneAnswerPerExpression ==
    /\ SameLabel
    /\ \A i, j \in 1..Len(openai_calls) :
          (i < j /\ openai_calls[i] = openai_calls[j]) => ~Answered(i)
    /\ USE_AI /\ "concept_cache" \in DOMAIN session_state =>
          \A expr \in DOMAIN session_state.concept_cache :
              \E i \in 1..Len(openai_calls) :
                  /\ openai_calls[i] = expr
                  /\ Answered(i)
                  /\ session_state.concept_cache[expr]
                       = lower(strip(openai_reply(expr, i - 1)))

\* a game was dealt from tiles of which an expression came up again after
\* the service had answered for it, and the service would have answered
\* otherwise the second time
C14_Witness ==
    /\ Initialized
    /\ USE_AI
    /\ backend = "drift"
    /\ \E f \in Faces(session_state) :
          \E i \in 1..Len(openai_calls) :
              /\ openai_calls[i] = f[1]
              /\ lower(strip(openai_reply(f[1], i - 1))) = f[2]
              /\ Cardinality({t \in SessionTiles(session_state) :
                                 t.a = f[1] \/ t.b = f[1]}) > 1
              /\ lower(strip(openai_reply(f[1], i))) # f[2]

\* C15: with the completion service, an expression for which the service
\* answered nothing (an answer that is empty once stripped) gets no label:
\* nothing is stored in the cache for it, no tile carries an empty concept,
\* and the fallback label does not stand in for it.
C15_EmptyAnswerRejected ==
    (USE_AI /\ "concept_cache" \in DOMAIN session_state) =>
        /\ \A expr \in DOMAIN session_state.concept_cache :
              session_state.concept_cache[expr] # <<>>
        /\ \A i \in 1..Len(openai_calls) :
              (Answered(i)
                 /\ strip(openai_reply(openai_calls[i], i - 1)) = <<>>) =>
                  openai_calls[i] \notin DOMAIN session_state.concept_cache
        /\ Initialized => \A f \in Faces(session_state) : f[2] # <<>>

\* the ids of the tiles of a hand or of the board
IdsOf(tiles) == {tiles[i].id : i \in 1..Len(tiles)}

\* the ids of all the tiles held and on the board
AllIds(ss) ==
    IdsOf(ss.board.tiles)
      \cup UNION {IdsOf(ss.players[name].hand) : name \in DOMAIN ss.players}

\* the sizes of the hands and the length of the board, added up
RECURSIVE HandSizes(_, _)
HandSizes(ss, k) ==
    IF k = 0 THEN 0
    ELSE HandSizes(ss, k - 1) + Len(ss.players[ss.player_order[k]].hand)

TotalTiles(ss) ==
    HandSizes(ss, Len(ss.player_order)) + Len(ss.board.tiles)

\* C16: once dealt, every tile is in one place only, once in one hand or
\* once on the board (there are as many ids as places taken); no step after
\* the deal brings in a tile or loses one, a tile on the board stays on the
\* board, and so the sizes of the hands and the length of the board add up
\* to the same number for ever.
C16_TileConservation ==
    [][ /\ Initialized' =>
              Cardinality(AllIds(session_state')) = TotalTiles(session_state')
        /\ Initialized =>
              /\ AllIds(session_state') = AllIds(session_state)
              /\ TotalTiles(session_state') = TotalTiles(session_state)
              /\ IdsOf(session_state.board.tiles)
                   \subseteq IdsOf(session_state'.board.tiles) ]_vars

\* two players have each put tiles on a board of four tiles or more, and
\* the last run put one there
C16_Witness ==
    /\ Initialized
    /\ run.event = "play" /\ run.success
    /\ Len(session_state.board.tiles) >= 4
    /\ Cardinality({name \in DOMAIN session_state.players :
                       session_state.players[name].score > 0}) >= 2

\* the concepts a tile can show to the right when it shows one of `inner`
\* to the left
Outward(tile, inner) ==
    {c \in {tile.a_concept, tile.b_concept} :
        \/ c = tile.b_concept /\ tile.a_concept \in inner
        \/ c = tile.a_concept /\ tile.b_concept \in inner}

\* the concepts the k-th tile of the board can show to the right, over
\* the ways of laying tiles 1..k face to equal face with the first tile
\* showing left_concept to the left
RECURSIVE RightFaces(_, _)
RightFaces(board, k) ==
    IF k = 0 THEN {board.left_concept}
    ELSE Outward(board.tiles[k], RightFaces(board, k - 1))

\* C17: the tiles of a non-empty board can be laid, each with one face
\* inward and one outward, so that neighbours touch on faces of equal
\* concept, the first tile shows left_concept outward and the last tile
\* shows right_concept outward.
C17_ChainConsistent ==
    (Initialized /\ session_state.board.tiles # <<>>) =>
        session_state.board.right_concept
            \in RightFaces(session_state.board,
                           Len(session_state.board.tiles))

\* a board of four tiles or more whose first tile was placed left by its
\* face A and whose last tile was placed right by its face B
C17_Witness ==
    /\ Initialized
    /\ Len(session_state.board.tiles) >= 4
    /\ LET board == session_state.board
           first == board.tiles[1]
           last  == board.tiles[Len(board.tiles)]
       IN  /\ first.a_concept # first.b_concept
           /\ first.b_concept = board.left_concept
           /\ last.a_concept # last.b_concept
           /\ last.a_concept = board.right_concept

\* place_tile_on_board would take the tile at the left or at the right end
Placeable(board, tile) ==
    \E side \in {"left", "right"} :
        place_tile_on_board(board, tile, side).success

\* C18: for the board and each hand of every state, a tile of the hand is
\* among the valid indices exactly when place_tile_on_board would succeed
\* for it at the left or at the right end; a run passes the turn exactly
\* when the current player holds no tile that can be placed at an end, so
\* the turn of a player who holds such a tile is never passed.
C18_GuardAgreesWithPlacement ==
    [][ /\ (Initialized' /\ session_state' # session_state) =>
            \A name \in DOMAIN session_state'.players :
                LET hand == session_state'.players[name].hand
                IN  valid_indices(hand, session_state'.board)
                      = {i \in 0..(Len(hand) - 1) :
                            Placeable(session_state'.board, hand[i + 1])}
        /\ Initialized =>
            LET hand == session_state.players[current_player(session_state)].hand
            IN  (run'.event = "autopass"
                   /\ session_state'.turn_index # session_state.turn_index)
                  <=> ~ \E i \in 1..Len(hand) :
                          Placeable(session_state.board, hand[i]) ]_vars

\* the current player holds a tile that goes at the left end only and a
\* tile that goes at no end, two players or more hold tiles, and the
\* last run passed the turn of the player before
C18_Witness ==
    /\ Initialized
    /\ run.event = "autopass"
    /\ session_state.board.tiles # <<>>
    /\ LET board == session_state.board
           hand  == session_state.players[current_player(session_state)].hand
       IN  /\ \E i \in 1..Len(hand) :
                 /\ place_tile_on_board(board, hand[i], "left").success
                 /\ ~place_tile_on_board(board, hand[i], "right").success
           /\ \E i \in 1..Len(hand) : ~Placeable(board, hand[i])
           /\ session_state.players[run.player].hand # <<>>

SomeHandEmpty ==
    /\ Initialized
    /\ \E name \in DOMAIN session_state.players :
          session_state.players[name].hand = <<>>

\* no player holds a tile that can be placed: the board has tiles and no
\* face of a tile held has the concept of an end
AllBlocked ==
    /\ Initialized
    /\ session_state.board.tiles # <<>>
    /\ LET ends == {session_state.board.left_concept,
                    session_state.board.right_concept}
       IN  \A name \in DOMAIN session_state.players :
              \A i \in 1..Len(session_state.players[name].hand) :
                  /\ session_state.players[name].hand[i].a_concept \notin ends
                  /\ session_state.players[name].hand[i].b_concept \notin ends

\* C19 as stated, the part a single state refutes: in a game dealt from 28
\* tiles, while every player holds tiles, some player holds a tile that
\* can be placed, so the turns are not passed round the table for ever.
C19_NeverBlocked ==
    (Initialized /\ TotalTiles(session_state) = 28 /\ ~SomeHandEmpty) =>
        ~AllBlocked

\* C19, amended: if turns to be passed are passed and players who can place
\* a tile place one, a game that was dealt comes to a state where a hand
\* is empty or to a state where no player holds a tile that can be placed,
\* from which the turns are passed round the table for ever.
C19_EndsOrBlocks == Initialized ~> (SomeHandEmpty \/ AllBlocked)

\* a game of two players dealt from 28 tiles in which both hold tiles
\* and neither can place one: the last run passed the turn
C19_Witness ==
    /\ AllBlocked
    /\ ~SomeHandEmpty
    /\ TotalTiles(session_state) = 28
    /\ session_state.board.tiles # <<>>
    /\ run.event = "autopass"

====
